---- MODULE Spec2Model ----
(***************************************************************************)
(* Feed synchronisation and schedule coordination of the stock-analysis    *)
(* monitoring page (src/app/page.tsx): the response normalizer             *)
(* parseAgentResponse, the execution poller pollForNewResults, the manual  *)
(* trigger runAnalysis, the schedule cache loadScheduleStatus and the      *)
(* toggle handleToggleSchedule, each translated handler by handler.        *)
(*                                                                         *)
(* An async handler is split at its awaits: the part up to the await is    *)
(* one action, the remote service's answer is a second one, and the        *)
(* continuation after the await (which JavaScript runs without             *)
(* interruption) is a third.                                               *)
(***************************************************************************)
EXTENDS Integers, Sequences, FiniteSets, TLC

(***************************************************************************)
(* Bounds of the model                                                     *)
(***************************************************************************)
\* overlapping poll ticks that may be outstanding at once
MaxTicks == 2
\* executions the remote schedule performs during the session
MaxExec == 2
\* manual analyses are started only while the feed is shorter than this
MaxFeed == 2
\* readings of the wall clock: 0..MaxClock
MaxClock == 1
\* status fetches (mount, Refresh) that may be outstanding at once
MaxStatus == 2

(***************************************************************************)
(* Program constants                                                       *)
(***************************************************************************)
AGENT_ID == "699c608cb6c78525434dfd6c"
SCHEDULE_ID == "699c6093399dfadeac38a2e8"
\* getScheduleLogs(SCHEDULE_ID, { limit: 3 }) in pollForNewResults
PollLimit == 3
\* getScheduleLogs(SCHEDULE_ID, { limit: 5 }) in loadLogs
LogsLimit == 5
\* el.scrollTop > 100
ScrollThreshold == 100

(***************************************************************************)
(* JavaScript values, as far as parseAgentResponse tells them apart        *)
(***************************************************************************)
Undef == [kind |-> "undefined"]
Null == [kind |-> "null"]
Str(s) == [kind |-> "string", str |-> s]
Num(n) == [kind |-> "number", num |-> n]
Bool(b) == [kind |-> "boolean", bool |-> b]
\* f: a function from property names to values
Obj(f) == [kind |-> "object", fields |-> f]
\* s: a sequence of values
Arr(s) == [kind |-> "array", items |-> s]

\* !v
Falsy(v) ==
    \/ v.kind \in {"undefined", "null"}
    \/ v.kind = "string" /\ v.str = ""
    \/ v.kind = "number" /\ v.num = 0
    \/ v.kind = "boolean" /\ ~v.bool

\* typeof v
TypeOf(v) ==
    CASE v.kind = "undefined" -> "undefined"
      [] v.kind = "string" -> "string"
      [] v.kind = "number" -> "number"
      [] v.kind = "boolean" -> "boolean"
      [] OTHER -> "object"

\* v?.name
Get(v, name) ==
    IF v.kind = "object" /\ name \in DOMAIN v.fields THEN v.fields[name] ELSE Undef

(***************************************************************************)
(* JSON texts and what JSON.parse makes of them.  Every text not listed    *)
(* here makes JSON.parse throw a SyntaxError.                              *)
(***************************************************************************)
TsA == "2024-05-01T10:00:00.000Z"
TsB == "2024-05-01T10:10:00.000Z"

ObjA ==
    Obj([current_price |-> Str("$421.35"), price_change |-> Str("+$4.10"),
         direction |-> Str("up"), bullet_points |-> Arr(<<Str("gained"), Num(7)>>),
         timestamp |-> Str(TsA)])
ObjB ==
    Obj([current_price |-> Str("$417.25"), price_change |-> Str("-$2.15"),
         direction |-> Str("down"), bullet_points |-> Arr(<<>>),
         timestamp |-> Str(TsB)])
\* no timestamp, a direction outside up/down/flat, a price of the wrong type
ObjC == Obj([current_price |-> Num(419), direction |-> Str("sideways")])
ObjEmpty == Obj(<<>>)
\* the agent's double wrapping: fields inside result, decoys outside
ObjWrapA == Obj([result |-> ObjA, current_price |-> Str("$0.00")])

JsonA == "{\"current_price\":\"$421.35\",\"price_change\":\"+$4.10\",\"direction\":\"up\",\"bullet_points\":[\"gained\",7],\"timestamp\":\"2024-05-01T10:00:00.000Z\"}"
JsonB == "{\"current_price\":\"$417.25\",\"price_change\":\"-$2.15\",\"direction\":\"down\",\"bullet_points\":[],\"timestamp\":\"2024-05-01T10:10:00.000Z\"}"
JsonC == "{\"current_price\":419,\"direction\":\"sideways\"}"
JsonEmpty == "{}"
JsonWrapA == "{\"result\":{\"current_price\":\"$421.35\",\"price_change\":\"+$4.10\",\"direction\":\"up\",\"bullet_points\":[\"gained\",7],\"timestamp\":\"2024-05-01T10:00:00.000Z\"},\"current_price\":\"$0.00\"}"
JsonString == "\"up\""
JsonNumber == "5"
JsonNull == "null"
NotJson == "MSFT is up today"

JsonTexts == {JsonA, JsonB, JsonC, JsonEmpty, JsonWrapA, JsonString, JsonNumber, JsonNull}

\* JSON.parse(s): ok = FALSE stands for the SyntaxError
JSONParse(s) ==
    CASE s = JsonA -> [ok |-> TRUE, val |-> ObjA]
      [] s = JsonB -> [ok |-> TRUE, val |-> ObjB]
      [] s = JsonC -> [ok |-> TRUE, val |-> ObjC]
      [] s = JsonEmpty -> [ok |-> TRUE, val |-> ObjEmpty]
      [] s = JsonWrapA -> [ok |-> TRUE, val |-> ObjWrapA]
      [] s = JsonString -> [ok |-> TRUE, val |-> Str("up")]
      [] s = JsonNumber -> [ok |-> TRUE, val |-> Num(5)]
      [] s = JsonNull -> [ok |-> TRUE, val |-> Null]
      [] OTHER -> [ok |-> FALSE, val |-> Undef]

\* new Date().toISOString() at clock reading n
ToISOString(n) == "2024-05-01T11:00:0" \o ToString(n) \o ".000Z"

\* new Date(now - minutes * 60 * 1000).toISOString() at clock reading n
ToISOStringBefore(n, minutes) ==
    "2024-05-01T10:" \o ToString(60 - minutes) \o ":0" \o ToString(n) \o ".000Z"

(***************************************************************************)
(* getSampleData: the illustrative records                                 *)
(***************************************************************************)
getSampleData(clock) ==
    <<[id |-> "sample-1", currentPrice |-> "$421.35", priceChange |-> "+$4.10 (+0.98%)",
       direction |-> "up",
       bulletPoints |->
           <<"MSFT shares gained nearly 1% in early trading, building on momentum from strong cloud revenue guidance.",
             "Azure growth rate accelerated to 33% YoY, exceeding analyst expectations of 30%.",
             "Institutional buying pressure remains robust with above-average volume.">>,
       timestamp |-> ToISOStringBefore(clock, 2), source |-> "manual"],
      [id |-> "sample-2", currentPrice |-> "$417.25", priceChange |-> "-$2.15 (-0.51%)",
       direction |-> "down",
       bulletPoints |->
           <<"MSFT dipped modestly amid broader tech sector rotation as investors moved toward defensive positions.",
             "Despite the pullback, the stock remains well above its 50-day moving average of $410.">>,
       timestamp |-> ToISOStringBefore(clock, 12), source |-> "scheduled"],
      [id |-> "sample-3", currentPrice |-> "$419.40", priceChange |-> "+$0.05 (+0.01%)",
       direction |-> "flat",
       bulletPoints |->
           <<"MSFT traded essentially flat as the market awaits key CPI data tomorrow.",
             "Options activity suggests traders are positioning for a breakout above $425 resistance.",
             "AI infrastructure capex guidance remains a key focus for upcoming earnings call.">>,
       timestamp |-> ToISOStringBefore(clock, 22), source |-> "scheduled"]>>

(***************************************************************************)
(* parseAgentResponse (the Response Normalizer)                            *)
(***************************************************************************)
\* the value parseAgentResponse returns null as
NullParsed ==
    [ok |-> FALSE, currentPrice |-> "", priceChange |-> "", direction |-> "",
     bulletPoints |-> <<>>, timestamp |-> ""]

\* parsed.bullet_points.filter((b) => typeof b === 'string')
RECURSIVE FilterStrings(_)
FilterStrings(items) ==
    IF items = <<>> THEN <<>>
    ELSE IF Head(items).kind = "string"
         THEN <<Head(items).str>> \o FilterStrings(Tail(items))
         ELSE FilterStrings(Tail(items))

\* Unwrap going down a second level
UnwrapTwice(parsed) ==
    LET once == IF ~Falsy(Get(parsed, "result")) /\ TypeOf(Get(parsed, "result")) = "object"
                THEN Get(parsed, "result")
                ELSE parsed
    IN  IF ~Falsy(Get(once, "result")) /\ TypeOf(Get(once, "result")) = "object"
        THEN Get(once, "result")
        ELSE once

\* lines 191-194: unwrap one nested result
Unwrap(parsed) ==
    IF ~Falsy(Get(parsed, "result")) /\ TypeOf(Get(parsed, "result")) = "object"
    THEN Get(parsed, "result")
    ELSE parsed

\* ExtractFields turning a price of another type into text
ExtractFieldsStringifying(parsed, clock) ==
    [ok |-> TRUE,
     currentPrice |-> IF TypeOf(Get(parsed, "current_price")) = "string"
                      THEN Get(parsed, "current_price").str
                      ELSE IF TypeOf(Get(parsed, "current_price")) = "number"
                           THEN ToString(Get(parsed, "current_price").num)
                           ELSE "N/A",
     priceChange |-> IF TypeOf(Get(parsed, "price_change")) = "string"
                     THEN Get(parsed, "price_change").str ELSE "N/A",
     direction |-> IF TypeOf(Get(parsed, "direction")) = "string"
                   THEN Get(parsed, "direction").str ELSE "flat",
     bulletPoints |-> IF Get(parsed, "bullet_points").kind = "array"
                      THEN FilterStrings(Get(parsed, "bullet_points").items) ELSE <<>>,
     timestamp |-> IF TypeOf(Get(parsed, "timestamp")) = "string"
                   THEN Get(parsed, "timestamp").str ELSE ToISOString(clock)]

\* ExtractFields with direction as a closed enum: any other text becomes flat
ExtractFieldsClosedDirection(parsed, clock) ==
    [ok |-> TRUE,
     currentPrice |-> IF TypeOf(Get(parsed, "current_price")) = "string"
                      THEN Get(parsed, "current_price").str ELSE "N/A",
     priceChange |-> IF TypeOf(Get(parsed, "price_change")) = "string"
                     THEN Get(parsed, "price_change").str ELSE "N/A",
     direction |-> IF /\ TypeOf(Get(parsed, "direction")) = "string"
                      /\ Get(parsed, "direction").str \in {"up", "down", "flat"}
                   THEN Get(parsed, "direction").str ELSE "flat",
     bulletPoints |-> IF Get(parsed, "bullet_points").kind = "array"
                      THEN FilterStrings(Get(parsed, "bullet_points").items) ELSE <<>>,
     timestamp |-> IF TypeOf(Get(parsed, "timestamp")) = "string"
                   THEN Get(parsed, "timestamp").str ELSE ToISOString(clock)]

\* lines 196-202: field extraction with defaults
ExtractFields(parsed, clock) ==
    [ok |-> TRUE,
     currentPrice |-> IF TypeOf(Get(parsed, "current_price")) = "string"
                      THEN Get(parsed, "current_price").str ELSE "N/A",
     priceChange |-> IF TypeOf(Get(parsed, "price_change")) = "string"
                     THEN Get(parsed, "price_change").str ELSE "N/A",
     direction |-> IF TypeOf(Get(parsed, "direction")) = "string"
                   THEN Get(parsed, "direction").str ELSE "flat",
     bulletPoints |-> IF Get(parsed, "bullet_points").kind = "array"
                      THEN FilterStrings(Get(parsed, "bullet_points").items) ELSE <<>>,
     timestamp |-> IF TypeOf(Get(parsed, "timestamp")) = "string"
                   THEN Get(parsed, "timestamp").str ELSE ToISOString(clock)]

\* parseAgentResponse refusing a text that decodes to something other than an
\* object
parseAgentResponseObjectsOnly(data, clock) ==
    IF Falsy(data) THEN NullParsed
    ELSE IF TypeOf(data) = "string"
         THEN IF JSONParse(data.str).ok /\ JSONParse(data.str).val.kind = "object"
              THEN ExtractFields(Unwrap(JSONParse(data.str).val), clock)
              ELSE NullParsed
    ELSE IF TypeOf(data) = "object"
         THEN ExtractFields(Unwrap(data), clock)
    ELSE NullParsed

parseAgentResponse(data, clock) ==
    IF Falsy(data) THEN NullParsed
    ELSE IF TypeOf(data) = "string"
         THEN IF JSONParse(data.str).ok
              THEN ExtractFields(Unwrap(JSONParse(data.str).val), clock)
              ELSE NullParsed
    ELSE IF TypeOf(data) = "object"
         THEN ExtractFields(Unwrap(data), clock)
    ELSE NullParsed


\* the text of the n-th identifier Math.random and Date.now may yield
IdText(n) == "id-" \o ToString(n)

\* generateId(): an identifier no entry of the feed carries
generateId(prev) ==
    IdText(CHOOSE n \in 1..(Len(prev) + 1) : \A k \in 1..Len(prev) : prev[k].id # IdText(n))

\* MakeEntry with the provenance tag lost
MakeEntryUntagged(parsed, source, prev) ==
    [id |-> generateId(prev), currentPrice |-> parsed.currentPrice,
     priceChange |-> parsed.priceChange, direction |-> parsed.direction,
     bulletPoints |-> parsed.bulletPoints, timestamp |-> parsed.timestamp,
     source |-> "scheduled"]

\* { id: generateId(), ...parsed, source }
MakeEntry(parsed, source, prev) ==
    [id |-> generateId(prev), currentPrice |-> parsed.currentPrice,
     priceChange |-> parsed.priceChange, direction |-> parsed.direction,
     bulletPoints |-> parsed.bulletPoints, timestamp |-> parsed.timestamp,
     source |-> source]

(***************************************************************************)
(* The payloads parseAgentResponse is applied to                           *)
(***************************************************************************)
\* an object holding the fields that are given a value
ObjOf(f) == Obj([n \in {m \in DOMAIN f : f[m] # Undef} |-> f[n]])

\* each field: absent, of the type the normalizer looks for, of another type
PriceChoices == {Undef, Str("$421.35"), Num(419)}
ChangeChoices == {Undef, Str("+$4.10"), Null}
DirectionChoices == {Undef, Str("up"), Str("sideways"), Num(1)}
BulletChoices == {Undef, Arr(<<Str("gained"), Num(7)>>), Str("gained")}
TimestampChoices == {Undef, Str(TsA), Num(0)}

FlatObjects ==
    {ObjOf([current_price |-> a, price_change |-> b, direction |-> c,
            bullet_points |-> d, timestamp |-> e]) :
        a \in PriceChoices, b \in ChangeChoices, c \in DirectionChoices,
        d \in BulletChoices, e \in TimestampChoices}

\* a result inside a result, each level with a price of its own
ObjWrapWrapA ==
    Obj([result |-> Obj([result |-> ObjA, current_price |-> Str("$1.00")]),
         current_price |-> Str("$0.00")])

\* objects with a result property: an object, an array, a string, null
WrappedObjects ==
    {Obj([result |-> r, current_price |-> Str("$0.00"), direction |-> Str("down")]) :
        r \in {ObjA, ObjC, ObjEmpty, Arr(<<Str("gained")>>), Str(JsonA), Null}}
    \cup {ObjWrapA, ObjWrapWrapA}

NormPayloads ==
    FlatObjects \cup WrappedObjects
    \cup {Str(t) : t \in JsonTexts \cup {NotJson, ""}}
    \cup {Undef, Null, Num(0), Num(42), Bool(FALSE), Bool(TRUE), Arr(<<>>), Arr(<<Str("up")>>)}

(***************************************************************************)
(* Remote collaborators: what they may answer                              *)
(***************************************************************************)
OTHER_SCHEDULE_ID == "699c6093399dfadeac38a000"

\* the id the scheduler service gives its n-th execution: never empty
ExecId(n) == "exec-" \o ToString(n)

\* response_output of an execution-log entry (Undef: the field is absent)
ExecOutputs == {Str(JsonA), Str(NotJson), Undef}

\* the entries the n-th firing of the schedule may leave in the log
ExecEntries(n) ==
    {[id |-> ExecId(n), success |-> TRUE, response_output |-> o] : o \in ExecOutputs}
    \cup {[id |-> ExecId(n), success |-> FALSE, response_output |-> Str(JsonA)]}

\* result.response.result of callAIAgent
AgentPayloads == {ObjWrapA, ObjC, Str(NotJson)}

NoPayload == Undef

\* callAIAgent: resolves with success, resolves with success = false and an
\* error text, or rejects with something that is no Error
AgentReplies ==
    {[kind |-> "ok", payload |-> p, error |-> ""] : p \in AgentPayloads}
    \cup {[kind |-> "fail", payload |-> NoPayload, error |-> "Agent unavailable"]}
    \cup {[kind |-> "throw", payload |-> NoPayload, error |-> ""]}

NoAgentReply == [kind |-> "none", payload |-> NoPayload, error |-> ""]

\* getScheduleLogs: { success, executions, total }, or a rejection
NoLogsReply == [kind |-> "none", executions |-> <<>>, total |-> 0]
LogsFail == [kind |-> "fail", executions |-> <<>>, total |-> 0]
LogsThrow == [kind |-> "throw", executions |-> <<>>, total |-> 0]

Min(a, b) == IF a < b THEN a ELSE b

\* the newest `limit` entries of the log and the log's size
LogsPage(log, limit) ==
    [kind |-> "ok", executions |-> SubSeq(log, 1, Min(limit, Len(log))), total |-> Len(log)]

LogsReplies(log, limit) == {LogsPage(log, limit), LogsFail, LogsThrow}

\* listSchedules: { success, schedules }, or a rejection
NoStatusReply == [kind |-> "none", schedules |-> <<>>]
StatusFail == [kind |-> "fail", schedules |-> <<>>]
StatusThrow == [kind |-> "throw", schedules |-> <<>>]
StatusReplies(remote) == {[kind |-> "ok", schedules |-> remote], StatusFail, StatusThrow}

\* useState<Schedule | null>(null)
NullSchedule == [id |-> "null", is_active |-> FALSE]

\* the remote schedules at the start of a session
InitialSchedules ==
    <<[id |-> OTHER_SCHEDULE_ID, is_active |-> FALSE], [id |-> SCHEDULE_ID, is_active |-> TRUE]>>

\* the toggle controls: the header switch and the button of the schedule panel
Controls == {"header", "panel"}

\* names of the status fetches under way: the i-th loadScheduleStatus of mount
\* and Refresh, the reconciling one of control c
LoadHandle(i) == "load-" \o ToString(i)
ToggleHandle(c) == "toggle-" \o c

\* a status fetch is issued: it is the latest of those under way
Issue(issued, h) == Append(issued, [h |-> h, overtaken |-> FALSE])

\* the continuation of fetch h has run: h is no longer under way, and when it
\* wrote the cache every fetch issued before it has been overtaken
Settle(issued, h, wrote) ==
    LET k == CHOOSE n \in 1..Len(issued) : issued[n].h = h
    IN  [n \in 1..(k - 1) |-> [issued[n] EXCEPT !.overtaken = @ \/ wrote]]
        \o SubSeq(issued, k + 1, Len(issued))

(***************************************************************************)
(* State                                                                   *)
(***************************************************************************)
VARIABLES
    \* React state of Page (lines 413-425)
    feed, isAnalyzing, analysisError, showSampleData, scheduleActive, scheduleData,
    toggling, logs, logsTotal, showSchedulePanel, newUpdateBanner, lastUpdated, mounted,
    \* refs (lines 427-429); scrollTop is feedContainerRef.current.scrollTop
    lastLogIdRef, pollIntervalRef, scrollTop,
    \* outstanding calls of the async handlers
    polls, logLoads, statusLoads, analysis, toggles,
    \* the status fetches under way, in the order they were issued
    statusIssued,
    \* the world outside: wall clock, execution log, schedule list
    now, remoteLog, remoteSchedules,
    \* one application of parseAgentResponse: its argument, whether it has
    \* returned, what it returned
    payload, normalized, fragment

pageVars ==
    <<feed, isAnalyzing, analysisError, showSampleData, scheduleActive, scheduleData,
      toggling, logs, logsTotal, showSchedulePanel, newUpdateBanner, lastUpdated, mounted>>
refVars == <<lastLogIdRef, pollIntervalRef, scrollTop>>
callVars == <<polls, logLoads, statusLoads, analysis, toggles, statusIssued>>
envVars == <<now, remoteLog, remoteSchedules>>
normVars == <<payload, normalized, fragment>>
vars == <<pageVars, refVars, callVars, envVars, normVars>>

feedVars == <<feed, lastUpdated>>
scheduleVars == <<scheduleActive, scheduleData>>
logVars == <<logs, logsTotal>>

IdleCall(none) == [pc |-> "idle", res |-> none]

PageInit ==
    /\ feed = <<>>
    /\ isAnalyzing = FALSE
    /\ analysisError = "null"
    /\ showSampleData = FALSE
    /\ scheduleActive = "null"
    /\ scheduleData = NullSchedule
    /\ toggling = FALSE
    /\ logs = <<>>
    /\ logsTotal = 0
    /\ showSchedulePanel = FALSE
    /\ newUpdateBanner = FALSE
    /\ lastUpdated = "null"
    /\ mounted = FALSE
    /\ lastLogIdRef = "null"
    /\ pollIntervalRef = "null"
    /\ scrollTop = 0
    /\ polls = [i \in 1..MaxTicks |-> IdleCall(NoLogsReply)]
    /\ logLoads = [i \in 1..MaxStatus |-> IdleCall(NoLogsReply)]
    /\ statusLoads = [i \in 1..MaxStatus |-> IdleCall(NoStatusReply)]
    /\ analysis = IdleCall(NoAgentReply)
    /\ toggles = [c \in Controls |-> [pc |-> "idle", call |-> "none", id |-> "null",
                                      res |-> NoStatusReply]]
    /\ statusIssued = <<>>
    /\ now = 0
    /\ remoteLog = <<>>
    /\ remoteSchedules = InitialSchedules

\* the page on its own: no payload is under study
Init ==
    /\ PageInit
    /\ payload = Undef
    /\ normalized = FALSE
    /\ fragment = NullParsed

\* the normalizer on its own: any payload of NormPayloads
InitNormalizer ==
    /\ PageInit
    /\ payload \in NormPayloads
    /\ normalized = FALSE
    /\ fragment = NullParsed

\* displayFeed with the test of feed.length left out
displayFeedWheneverOn == IF showSampleData THEN getSampleData(now) ELSE feed

\* line 432: what a render at this moment shows
displayFeed == IF showSampleData /\ Len(feed) = 0 THEN getSampleData(now) ELSE feed

\* the page is rendered and has not been unmounted: its controls can be used
\* and feedContainerRef.current is attached
Rendered == mounted /\ pollIntervalRef = "armed"

\* the lowest idle slot of a table of calls
FreeSlot(calls) == CHOOSE i \in DOMAIN calls : calls[i].pc = "idle" /\ \A j \in DOMAIN calls : calls[j].pc = "idle" => i <= j
HasFreeSlot(calls) == \E i \in DOMAIN calls : calls[i].pc = "idle"


(***************************************************************************)
(* The world outside                                                       *)
(***************************************************************************)
\* time passes
ClockTick ==
    /\ now < MaxClock
    /\ now' = now + 1
    /\ UNCHANGED <<normVars, pageVars, refVars, callVars, remoteLog, remoteSchedules>>

\* the remote schedule fires: the scheduler service logs one more execution,
\* newest first
ScheduleFires ==
    /\ Len(remoteLog) < MaxExec
    /\ \E e \in ExecEntries(Len(remoteLog) + 1) : remoteLog' = <<e>> \o remoteLog
    /\ UNCHANGED <<normVars, pageVars, refVars, callVars, now, remoteSchedules>>

(***************************************************************************)
(* parseAgentResponse applied to the payload under study                   *)
(***************************************************************************)
Normalize ==
    /\ ~normalized
    /\ normalized' = TRUE
    /\ fragment' = parseAgentResponse(payload, now)
    /\ UNCHANGED <<pageVars, refVars, callVars, envVars, payload>>

(***************************************************************************)
(* Mount and unmount (the effect of lines 583-594)                         *)
(***************************************************************************)
Mount ==
    /\ ~mounted
    /\ mounted' = TRUE
    /\ statusLoads' = [statusLoads EXCEPT ![FreeSlot(statusLoads)].pc = "sent"]
    /\ logLoads' = [logLoads EXCEPT ![FreeSlot(logLoads)].pc = "sent"]
    /\ pollIntervalRef' = "armed"
    /\ statusIssued' = Issue(statusIssued, LoadHandle(FreeSlot(statusLoads)))
    /\ UNCHANGED <<normVars, feed, isAnalyzing, analysisError, showSampleData, scheduleActive,
                   scheduleData, toggling, logs, logsTotal, showSchedulePanel,
                   newUpdateBanner, lastUpdated, lastLogIdRef, scrollTop,
                   polls, analysis, toggles, envVars>>

\* the effect's cleanup: if (pollIntervalRef.current) clearInterval(...)
Unmount ==
    /\ pollIntervalRef = "armed"
    /\ pollIntervalRef' = "cleared"
    /\ UNCHANGED <<normVars, pageVars, lastLogIdRef, scrollTop, callVars, envVars>>

(***************************************************************************)
(* pollForNewResults (the Execution Poller)                                *)
(***************************************************************************)
\* the interval timer fires: pollForNewResults runs up to its await
PollStart ==
    /\ pollIntervalRef = "armed"
    /\ HasFreeSlot(polls)
    /\ polls' = [polls EXCEPT ![FreeSlot(polls)].pc = "sent"]
    /\ UNCHANGED <<normVars, statusIssued, pageVars, refVars, logLoads, statusLoads, analysis, toggles, envVars>>

\* getScheduleLogs(SCHEDULE_ID, { limit: 3 }) is answered
PollReply(i) ==
    /\ polls[i].pc = "sent"
    /\ \E r \in LogsReplies(remoteLog, PollLimit) :
           polls' = [polls EXCEPT ![i] = [pc |-> "replied", res |-> r]]
    /\ UNCHANGED <<normVars, statusIssued, pageVars, refVars, logLoads, statusLoads, analysis, toggles, envVars>>

\* PollSkips without the test of the id seen last
PollSkipsWithoutSeenTest(r, lastId) ==
    \/ r.kind # "ok"
    \/ Len(r.executions) = 0
    \/ r.executions[1].id = ""

\* PollSkips returning on an unsuccessful latest entry as well
PollSkipsUnsuccessful(r, lastId) ==
    \/ r.kind # "ok"
    \/ Len(r.executions) = 0
    \/ r.executions[1].id = ""
    \/ lastId = r.executions[1].id
    \/ ~r.executions[1].success

\* lines 467-476: the answers on which the tick returns without doing anything
PollSkips(r, lastId) ==
    \/ r.kind # "ok"
    \/ Len(r.executions) = 0
    \/ r.executions[1].id = ""
    \/ lastId = r.executions[1].id

\* FirstPoll with the first-poll branch never taken
FirstPollNever(lastId) == FALSE

\* line 479: nothing has been seen yet
FirstPoll(lastId) == lastId = "null"

\* PollParsed without the test of latestLog.success
PollParsedIgnoringSuccess(latestLog, clock) ==
    IF ~Falsy(latestLog.response_output)
    THEN parseAgentResponse(latestLog.response_output, clock)
    ELSE NullParsed

\* PollParsed falling back to the default fields when the output does not parse
PollParsedDefaulting(latestLog, clock) ==
    IF latestLog.success /\ ~Falsy(latestLog.response_output)
    THEN IF parseAgentResponse(latestLog.response_output, clock).ok
         THEN parseAgentResponse(latestLog.response_output, clock)
         ELSE ExtractFields(ObjEmpty, clock)
    ELSE NullParsed

\* lines 487-489: the latest entry yields a parsed record
PollParsed(latestLog, clock) ==
    IF latestLog.success /\ ~Falsy(latestLog.response_output)
    THEN parseAgentResponse(latestLog.response_output, clock)
    ELSE NullParsed

\* InsertScheduled overwriting the latest record instead of prepending
InsertScheduledInPlace(prev, entry) ==
    IF prev = <<>> THEN <<entry>> ELSE [prev EXCEPT ![1] = entry]

\* lines 496-501: the updater passed to setFeed by the poller
InsertScheduled(prev, entry) ==
    IF \E k \in 1..Len(prev) :
           prev[k].timestamp = entry.timestamp /\ prev[k].currentPrice = entry.currentPrice
    THEN prev
    ELSE <<entry>> \o prev

\* lines 505-510
ScrolledDown == Rendered /\ scrollTop > ScrollThreshold

\* PollCatch putting a message up for the operator
PollCatchSurfacing(message) == "Network error while polling."

\* lines 517-519: the catch of pollForNewResults is empty, the message the
\* operator sees stays what it was
PollCatch(message) == message

\* the continuation of pollForNewResults after its await
PollDeliver(i) ==
    /\ polls[i].pc = "replied"
    /\ polls' = [polls EXCEPT ![i] = IdleCall(NoLogsReply)]
    /\ analysisError' = IF polls[i].res.kind = "throw"
                        THEN PollCatch(analysisError)
                        ELSE analysisError
    /\ LET r == polls[i].res
           latestLog == r.executions[1]
           parsed == PollParsed(latestLog, now)
       IN  IF PollSkips(r, lastLogIdRef)
           THEN UNCHANGED <<feedVars, logVars, newUpdateBanner, lastLogIdRef>>
           ELSE IF FirstPoll(lastLogIdRef)
           THEN /\ lastLogIdRef' = latestLog.id
                /\ UNCHANGED <<feedVars, logVars, newUpdateBanner>>
           ELSE /\ lastLogIdRef' = latestLog.id
                /\ IF parsed.ok
                   THEN /\ feed' = InsertScheduled(feed, MakeEntry(parsed, "scheduled", feed))
                        /\ lastUpdated' = ToISOString(now)
                        /\ newUpdateBanner' = (newUpdateBanner \/ ScrolledDown)
                   ELSE UNCHANGED <<feedVars, newUpdateBanner>>
                /\ logs' = r.executions
                /\ logsTotal' = r.total
    /\ UNCHANGED <<normVars, statusIssued, isAnalyzing, showSampleData, scheduleVars, toggling,
                   showSchedulePanel, mounted, pollIntervalRef, scrollTop,
                   logLoads, statusLoads, analysis, toggles, envVars>>

(***************************************************************************)
(* loadLogs                                                                *)
(***************************************************************************)
LogsReply(i) ==
    /\ logLoads[i].pc = "sent"
    /\ \E r \in LogsReplies(remoteLog, LogsLimit) :
           logLoads' = [logLoads EXCEPT ![i] = [pc |-> "replied", res |-> r]]
    /\ UNCHANGED <<normVars, statusIssued, pageVars, refVars, polls, statusLoads, analysis, toggles, envVars>>

LogsDeliver(i) ==
    /\ logLoads[i].pc = "replied"
    /\ logLoads' = [logLoads EXCEPT ![i] = IdleCall(NoLogsReply)]
    /\ IF logLoads[i].res.kind = "ok"
       THEN /\ logs' = logLoads[i].res.executions
            /\ logsTotal' = logLoads[i].res.total
       ELSE UNCHANGED logVars
    /\ UNCHANGED <<normVars, statusIssued, feed, isAnalyzing, analysisError, showSampleData, scheduleVars, toggling,
                   showSchedulePanel, newUpdateBanner, lastUpdated, mounted, refVars,
                   polls, statusLoads, analysis, toggles, envVars>>

(***************************************************************************)
(* runAnalysis (the Manual Trigger)                                        *)
(***************************************************************************)
\* a click on either Run Analysis button (disabled={isAnalyzing}): lines 524-528
RunAnalysis ==
    /\ Rendered
    /\ ~isAnalyzing
    /\ Len(feed) < MaxFeed
    /\ isAnalyzing' = TRUE
    /\ analysisError' = "null"
    /\ analysis' = [pc |-> "sent", res |-> NoAgentReply]
    /\ UNCHANGED <<normVars, statusIssued, feed, showSampleData, scheduleVars, toggling, logVars, showSchedulePanel,
                   newUpdateBanner, lastUpdated, mounted, refVars,
                   polls, logLoads, statusLoads, toggles, envVars>>

\* Finally leaving the busy flag as the handler set it
FinallyKeeping(busy) == busy

\* lines 549-551 and 569-571: the finally block of runAnalysis and of
\* handleToggleSchedule resets the busy flag on every path out of the try
Finally(busy) == FALSE

\* callAIAgent is answered
AgentReply ==
    /\ analysis.pc = "sent"
    /\ \E r \in AgentReplies : analysis' = [pc |-> "replied", res |-> r]
    /\ UNCHANGED <<normVars, statusIssued, pageVars, refVars, polls, logLoads, statusLoads, toggles, envVars>>

\* InsertManual appending instead of prepending
InsertManualAtEnd(prev, entry) == prev \o <<entry>>

\* line 539: the updater passed to setFeed by runAnalysis
InsertManual(prev, entry) == <<entry>> \o prev

\* AnalysisErrorFor with the rejection swallowed, as the other handlers do
AnalysisErrorForSilentCatch(r) ==
    CASE r.kind = "ok" -> "Received unexpected response format from agent."
      [] r.kind = "fail" -> IF r.error # "" THEN r.error ELSE "Analysis failed. Please try again."
      [] OTHER -> "null"

\* lines 542, 545, 548: the message shown for an answer that yields no record
AnalysisErrorFor(r) ==
    CASE r.kind = "ok" -> "Received unexpected response format from agent."
      [] r.kind = "fail" -> IF r.error # "" THEN r.error ELSE "Analysis failed. Please try again."
      [] OTHER -> IF r.error # "" THEN r.error ELSE "Network error during analysis."

\* AnalysisDeliver taking the banner down when it inserts a record
AnalysisDeliverLoweringBanner ==
    /\ analysis.pc = "replied"
    /\ analysis' = IdleCall(NoAgentReply)
    /\ LET r == analysis.res
           parsed == parseAgentResponse(r.payload, now)
       IN  IF r.kind = "ok" /\ parsed.ok
           THEN /\ feed' = InsertManual(feed, MakeEntry(parsed, "manual", feed))
                /\ lastUpdated' = ToISOString(now)
                /\ newUpdateBanner' = FALSE
                /\ UNCHANGED analysisError
           ELSE /\ analysisError' = AnalysisErrorFor(r)
                /\ UNCHANGED <<feedVars, newUpdateBanner>>
    /\ isAnalyzing' = Finally(isAnalyzing)
    /\ UNCHANGED <<normVars, statusIssued, showSampleData, scheduleVars, toggling, logVars, showSchedulePanel,
                   mounted, refVars, polls, logLoads, statusLoads, toggles, envVars>>

\* the continuation of runAnalysis after its await (lines 530-551)
AnalysisDeliver ==
    /\ analysis.pc = "replied"
    /\ analysis' = IdleCall(NoAgentReply)
    /\ LET r == analysis.res
           parsed == parseAgentResponse(r.payload, now)
       IN  IF r.kind = "ok" /\ parsed.ok
           THEN /\ feed' = InsertManual(feed, MakeEntry(parsed, "manual", feed))
                /\ lastUpdated' = ToISOString(now)
                /\ UNCHANGED analysisError
           ELSE /\ analysisError' = AnalysisErrorFor(r)
                /\ UNCHANGED feedVars
    /\ isAnalyzing' = Finally(isAnalyzing)
    /\ UNCHANGED <<normVars, statusIssued, showSampleData, scheduleVars, toggling, logVars, showSchedulePanel,
                   newUpdateBanner, mounted, refVars,
                   polls, logLoads, statusLoads, toggles, envVars>>

(***************************************************************************)
(* The operator: viewport, banners, sample data                            *)
(***************************************************************************)
\* the operator scrolls the feed container
Scroll ==
    /\ Rendered
    /\ \E y \in {0, ScrollThreshold + 1} : y # scrollTop /\ scrollTop' = y
    /\ UNCHANGED <<normVars, pageVars, lastLogIdRef, pollIntervalRef, callVars, envVars>>

\* scrollToTop (lines 575-580): a click on the new-update banner
ScrollToTop ==
    /\ Rendered
    /\ newUpdateBanner
    /\ scrollTop' = 0
    /\ newUpdateBanner' = FALSE
    /\ UNCHANGED <<normVars, feed, isAnalyzing, analysisError, showSampleData, scheduleVars, toggling,
                   logVars, showSchedulePanel, lastUpdated, mounted,
                   lastLogIdRef, pollIntervalRef, callVars, envVars>>

\* line 736: Dismiss on the error banner
DismissError ==
    /\ Rendered
    /\ analysisError # "null"
    /\ analysisError' = "null"
    /\ UNCHANGED <<normVars, feed, isAnalyzing, showSampleData, scheduleVars, toggling, logVars,
                   showSchedulePanel, newUpdateBanner, lastUpdated, mounted,
                   refVars, callVars, envVars>>

\* line 669: the Sample Data switch
ToggleSampleData ==
    /\ Rendered
    /\ showSampleData' = ~showSampleData
    /\ UNCHANGED <<normVars, feed, isAnalyzing, analysisError, scheduleVars, toggling, logVars,
                   showSchedulePanel, newUpdateBanner, lastUpdated, mounted,
                   refVars, callVars, envVars>>


(***************************************************************************)
(* loadScheduleStatus (the Schedule State Coordinator's fetchStatus)       *)
(***************************************************************************)
\* SelectSchedule without the search for the tracked id
SelectFirstSchedule(schedules) ==
    IF Len(schedules) > 0 THEN schedules[1] ELSE NullSchedule

\* result.schedules.find((s) => s.id === SCHEDULE_ID) || result.schedules[0];
\* NullSchedule when there is neither
SelectSchedule(schedules) ==
    IF \E k \in 1..Len(schedules) : schedules[k].id = SCHEDULE_ID
    THEN schedules[CHOOSE k \in 1..Len(schedules) :
                       /\ schedules[k].id = SCHEDULE_ID
                       /\ \A j \in 1..(k - 1) : schedules[j].id # SCHEDULE_ID]
    ELSE IF Len(schedules) > 0 THEN schedules[1] ELSE NullSchedule

\* StatusWrites without the test of the schedule found (line 441)
StatusWritesWhateverFound(r) == r.kind = "ok"

\* lines 438-444: the answer is written to the cache
StatusWrites(r) == r.kind = "ok" /\ SelectSchedule(r.schedules) # NullSchedule

BoolText(b) == IF b THEN "true" ELSE "false"

\* the continuation of loadScheduleStatus after its await, as a state change
ApplyStatus(r) ==
    IF StatusWrites(r)
    THEN /\ scheduleData' = SelectSchedule(r.schedules)
         /\ scheduleActive' = BoolText(SelectSchedule(r.schedules).is_active)
    ELSE UNCHANGED scheduleVars

\* listSchedules({ agentId: AGENT_ID }) is answered
StatusReply(i) ==
    /\ statusLoads[i].pc = "sent"
    /\ \E r \in StatusReplies(remoteSchedules) :
           statusLoads' = [statusLoads EXCEPT ![i] = [pc |-> "replied", res |-> r]]
    /\ UNCHANGED <<normVars, statusIssued, pageVars, refVars, polls, logLoads, analysis, toggles, envVars>>

StatusDeliver(i) ==
    /\ statusLoads[i].pc = "replied"
    /\ statusLoads' = [statusLoads EXCEPT ![i] = IdleCall(NoStatusReply)]
    /\ ApplyStatus(statusLoads[i].res)
    /\ statusIssued' = Settle(statusIssued, LoadHandle(i), StatusWrites(statusLoads[i].res))
    /\ UNCHANGED <<normVars, feed, isAnalyzing, analysisError, showSampleData, toggling, logVars,
                   showSchedulePanel, newUpdateBanner, lastUpdated, mounted, refVars,
                   polls, logLoads, analysis, toggles, envVars>>

\* line 882: the Refresh button of the schedule panel
Refresh ==
    /\ Rendered
    /\ showSchedulePanel
    /\ HasFreeSlot(logLoads)
    /\ HasFreeSlot(statusLoads)
    /\ logLoads' = [logLoads EXCEPT ![FreeSlot(logLoads)].pc = "sent"]
    /\ statusLoads' = [statusLoads EXCEPT ![FreeSlot(statusLoads)].pc = "sent"]
    /\ statusIssued' = Issue(statusIssued, LoadHandle(FreeSlot(statusLoads)))
    /\ UNCHANGED <<normVars, pageVars, refVars, polls, analysis, toggles, envVars>>

\* line 813: the schedule panel is opened or closed
TogglePanel ==
    /\ Rendered
    /\ showSchedulePanel' = ~showSchedulePanel
    /\ UNCHANGED <<normVars, feed, isAnalyzing, analysisError, showSampleData, scheduleVars, toggling,
                   logVars, newUpdateBanner, lastUpdated, mounted, refVars, callVars, envVars>>

(***************************************************************************)
(* handleToggleSchedule (the Coordinator's toggle)                         *)
(***************************************************************************)
\* ToggleEnabled without the busy flag
ToggleEnabledIgnoringBusy == scheduleActive # "null"

\* disabled={toggling || scheduleActive === null} on both controls
ToggleEnabled == ~toggling /\ scheduleActive # "null"

\* ToggleCall pausing whatever the cached schedule says
ToggleCallAlwaysPause(sched) == "pause"

\* lines 560-564: pauseSchedule when the cached schedule is active, else
\* resumeSchedule
ToggleCall(sched) == IF sched.is_active THEN "pause" ELSE "resume"

IdleToggle == [pc |-> "idle", call |-> "none", id |-> "null", res |-> NoStatusReply]

\* ToggleStart flipping the cached state before the service has answered
ToggleStartOptimistic(c) ==
    /\ Rendered
    /\ c = "panel" => showSchedulePanel
    /\ toggles[c].pc = "idle"
    /\ ~toggling /\ scheduleActive # "null"
    /\ scheduleData # NullSchedule
    /\ toggling' = TRUE
    /\ toggles' = [toggles EXCEPT ![c] =
                      [pc |-> "calling",
                       call |-> ToggleCall(scheduleData),
                       id |-> scheduleData.id,
                       res |-> [kind |-> "none", schedules |-> <<>>]]]
    /\ scheduleData' = [scheduleData EXCEPT !.is_active = ~scheduleData.is_active]
    /\ scheduleActive' = IF scheduleData.is_active THEN "false" ELSE "true"
    /\ UNCHANGED <<normVars, statusIssued, feed, isAnalyzing, analysisError, showSampleData, logs, logsTotal,
                   showSchedulePanel, newUpdateBanner, lastUpdated, mounted, refVars,
                   polls, logLoads, statusLoads, analysis, envVars>>

\* a click on control c: lines 556-564, up to the await of pause/resume
ToggleStart(c) ==
    /\ Rendered
    /\ c = "panel" => showSchedulePanel
    /\ toggles[c].pc = "idle"
    /\ ToggleEnabled
    /\ scheduleData # NullSchedule
    /\ toggling' = TRUE
    /\ toggles' = [toggles EXCEPT ![c] =
                      [pc |-> "calling",
                       call |-> ToggleCall(scheduleData),
                       id |-> scheduleData.id,
                       res |-> NoStatusReply]]
    /\ UNCHANGED <<normVars, statusIssued, feed, isAnalyzing, analysisError, showSampleData, scheduleVars, logVars,
                   showSchedulePanel, newUpdateBanner, lastUpdated, mounted, refVars,
                   polls, logLoads, statusLoads, analysis, envVars>>

\* the scheduler service carries out pause(id) or resume(id)
SetActive(remote, id, active) ==
    [k \in 1..Len(remote) |->
        IF remote[k].id = id THEN [remote[k] EXCEPT !.is_active = active] ELSE remote[k]]

\* pauseSchedule / resumeSchedule resolves, having taken effect or not (its
\* result is not looked at): line 566 calls loadScheduleStatus
ToggleCallReturns(c) ==
    /\ toggles[c].pc = "calling"
    /\ \E done \in BOOLEAN :
           remoteSchedules' = IF done
                              THEN SetActive(remoteSchedules, toggles[c].id, toggles[c].call = "resume")
                              ELSE remoteSchedules
    /\ toggles' = [toggles EXCEPT ![c].pc = "fetching"]
    /\ statusIssued' = Issue(statusIssued, ToggleHandle(c))
    /\ UNCHANGED <<normVars, pageVars, refVars, polls, logLoads, statusLoads, analysis, now, remoteLog>>

\* ToggleCatch telling the operator that the toggle failed
ToggleCatchSurfacing(message) == "Failed to update schedule."

\* lines 567-569: the catch of handleToggleSchedule is empty, the message the
\* operator sees stays what it was
ToggleCatch(message) == message

\* pauseSchedule / resumeSchedule rejects: catch, then finally (lines 567-571)
ToggleCallThrows(c) ==
    /\ toggles[c].pc = "calling"
    /\ toggles' = [toggles EXCEPT ![c] = IdleToggle]
    /\ analysisError' = ToggleCatch(analysisError)
    /\ toggling' = Finally(toggling)
    /\ UNCHANGED <<normVars, statusIssued, feed, isAnalyzing, showSampleData, scheduleVars, logVars,
                   showSchedulePanel, newUpdateBanner, lastUpdated, mounted, refVars,
                   polls, logLoads, statusLoads, analysis, envVars>>

\* the listSchedules of the reconciling loadScheduleStatus is answered
ToggleFetchReply(c) ==
    /\ toggles[c].pc = "fetching"
    /\ \E r \in StatusReplies(remoteSchedules) :
           toggles' = [toggles EXCEPT ![c].pc = "fetched", ![c].res = r]
    /\ UNCHANGED <<normVars, statusIssued, pageVars, refVars, polls, logLoads, statusLoads, analysis, envVars>>

\* the continuation of loadScheduleStatus, then the finally of the toggle
ToggleFetchDeliver(c) ==
    /\ toggles[c].pc = "fetched"
    /\ ApplyStatus(toggles[c].res)
    /\ toggles' = [toggles EXCEPT ![c] = IdleToggle]
    /\ toggling' = Finally(toggling)
    /\ statusIssued' = Settle(statusIssued, ToggleHandle(c), StatusWrites(toggles[c].res))
    /\ UNCHANGED <<normVars, feed, isAnalyzing, analysisError, showSampleData, logVars,
                   showSchedulePanel, newUpdateBanner, lastUpdated, mounted, refVars,
                   polls, logLoads, statusLoads, analysis, envVars>>

\* the schedules change behind the page's back: one is deleted, or paused or
\* resumed by someone else
RemoteChange ==
    /\ \/ \E k \in 1..Len(remoteSchedules) :
              remoteSchedules' = [j \in 1..(Len(remoteSchedules) - 1) |->
                                     IF j < k THEN remoteSchedules[j] ELSE remoteSchedules[j + 1]]
       \/ \E k \in 1..Len(remoteSchedules) :
              remoteSchedules' = SetActive(remoteSchedules, remoteSchedules[k].id,
                                           ~remoteSchedules[k].is_active)
    /\ UNCHANGED <<normVars, pageVars, refVars, callVars, now, remoteLog>>

(***************************************************************************)
(* Specifications                                                          *)
(***************************************************************************)
Lifecycle == Mount \/ Unmount

Poller ==
    \/ PollStart
    \/ \E i \in 1..MaxTicks : PollReply(i)
    \/ \E i \in 1..MaxTicks : PollDeliver(i)

LogLoader ==
    \/ \E i \in 1..MaxStatus : LogsReply(i)
    \/ \E i \in 1..MaxStatus : LogsDeliver(i)

ManualTrigger == RunAnalysis \/ AgentReply \/ AnalysisDeliver

Operator == Scroll \/ ScrollToTop \/ DismissError \/ ToggleSampleData

StatusLoader ==
    \/ \E i \in 1..MaxStatus : StatusReply(i)
    \/ \E i \in 1..MaxStatus : StatusDeliver(i)

Coordinator ==
    \/ \E c \in Controls : ToggleStart(c)
    \/ \E c \in Controls : ToggleCallReturns(c)
    \/ \E c \in Controls : ToggleCallThrows(c)
    \/ \E c \in Controls : ToggleFetchReply(c)
    \/ \E c \in Controls : ToggleFetchDeliver(c)

\* the poller alone, with the operator scrolling and acknowledging
NextPoller ==
    \/ Mount \/ Unmount \/ ScheduleFires
    \/ PollStart
    \/ \E i \in 1..MaxTicks : PollReply(i)
    \/ \E i \in 1..MaxTicks : PollDeliver(i)
    \/ Scroll \/ ScrollToTop

\* the two insertion paths of the feed: poller and manual trigger
NextFeed ==
    \/ Mount \/ Unmount \/ ScheduleFires
    \/ PollStart
    \/ \E i \in 1..MaxTicks : PollReply(i)
    \/ \E i \in 1..MaxTicks : PollDeliver(i)
    \/ RunAnalysis \/ AgentReply \/ AnalysisDeliver

\* the schedule side of the page
NextSchedule ==
    \/ Mount \/ Unmount \/ TogglePanel \/ Refresh \/ RemoteChange
    \/ \E i \in 1..MaxStatus : StatusReply(i)
    \/ \E i \in 1..MaxStatus : StatusDeliver(i)
    \/ \E c \in Controls : ToggleStart(c)
    \/ \E c \in Controls : ToggleCallReturns(c)
    \/ \E c \in Controls : ToggleCallThrows(c)
    \/ \E c \in Controls : ToggleFetchReply(c)
    \/ \E c \in Controls : ToggleFetchDeliver(c)

Next ==
    \/ Lifecycle \/ ClockTick \/ ScheduleFires \/ RemoteChange
    \/ Poller \/ LogLoader \/ ManualTrigger \/ Operator \/ TogglePanel \/ Refresh
    \/ StatusLoader \/ Coordinator \/ Normalize

\* a tick of the interval timer that finds no earlier tick still waiting for
\* its answer: the fetches take less than the 60 s between two ticks
PollStartInTurn == PollStart /\ \A i \in 1..MaxTicks : polls[i].pc = "idle"

\* the background flows (poller in turn, log load, status load) beside the
\* manual trigger and the Dismiss button
NextBackground ==
    \/ Mount \/ ScheduleFires
    \/ PollStartInTurn
    \/ \E i \in 1..MaxTicks : PollReply(i)
    \/ \E i \in 1..MaxTicks : PollDeliver(i)
    \/ \E i \in 1..MaxStatus : LogsReply(i)
    \/ \E i \in 1..MaxStatus : LogsDeliver(i)
    \/ \E i \in 1..MaxStatus : StatusReply(i)
    \/ \E i \in 1..MaxStatus : StatusDeliver(i)
    \/ RunAnalysis \/ AgentReply \/ AnalysisDeliver \/ DismissError

\* a session: poller in turn, manual trigger, status fetch and toggle, with the
\* operator scrolling and acknowledging
NextSession ==
    \/ Mount \/ ScheduleFires
    \/ PollStartInTurn
    \/ \E i \in 1..MaxTicks : PollReply(i)
    \/ \E i \in 1..MaxTicks : PollDeliver(i)
    \/ Scroll \/ ScrollToTop
    \/ RunAnalysis \/ AgentReply \/ AnalysisDeliver
    \/ \E i \in 1..MaxStatus : StatusReply(i)
    \/ \E i \in 1..MaxStatus : StatusDeliver(i)
    \/ \E c \in Controls : ToggleStart(c)
    \/ \E c \in Controls : ToggleCallReturns(c)
    \/ \E c \in Controls : ToggleCallThrows(c)
    \/ \E c \in Controls : ToggleFetchReply(c)
    \/ \E c \in Controls : ToggleFetchDeliver(c)

\* the normalizer and the clock it reads
NextNormalizer == Normalize \/ ClockTick

\* the feed's two insertion paths with the Sample Data switch
NextDisplay == NextFeed \/ ToggleSampleData

\* pollForNewResults and runAnalysis neither read nor write scheduleActive,
\* scheduleData or toggling, and loadScheduleStatus and handleToggleSchedule
\* neither read nor write the feed, the refs or the cached log, so the two
\* sides are explored on their own; Spec is their composition.
Spec == Init /\ [][Next]_vars
SpecPoller == Init /\ [][NextPoller]_vars
SpecFeed == Init /\ [][NextFeed]_vars
SpecSchedule == Init /\ [][NextSchedule]_vars
SpecDisplay == Init /\ [][NextDisplay]_vars
SpecNormalizer == InitNormalizer /\ [][NextNormalizer]_vars
SpecBackground == Init /\ [][NextBackground]_vars
SpecSession == Init /\ [][NextSession]_vars

\* the two handlers that hold a busy flag, with the status fetches of mount;
\* every remote call is eventually answered or rejected, and a continuation
\* whose await has settled eventually runs
NextBusy ==
    \/ Mount \/ TogglePanel
    \/ \E i \in 1..MaxStatus : StatusReply(i)
    \/ \E i \in 1..MaxStatus : StatusDeliver(i)
    \/ \E c \in Controls : ToggleStart(c)
    \/ \E c \in Controls : ToggleCallReturns(c)
    \/ \E c \in Controls : ToggleCallThrows(c)
    \/ \E c \in Controls : ToggleFetchReply(c)
    \/ \E c \in Controls : ToggleFetchDeliver(c)
    \/ RunAnalysis \/ AgentReply \/ AnalysisDeliver \/ DismissError

RemoteCallsSettle ==
    /\ WF_vars(AgentReply)
    /\ \A c \in Controls : WF_vars(ToggleCallReturns(c) \/ ToggleCallThrows(c))
    /\ \A c \in Controls : WF_vars(ToggleFetchReply(c))

ContinuationsRun ==
    /\ WF_vars(AnalysisDeliver)
    /\ \A c \in Controls : WF_vars(ToggleFetchDeliver(c))

SpecBusy == Init /\ [][NextBusy]_vars /\ RemoteCallsSettle /\ ContinuationsRun


(***************************************************************************)
(* Properties                                                              *)
(***************************************************************************)
\* entries i and j of a feed share the dedup key (timestamp, currentPrice)
SameKey(a, b) == a.timestamp = b.timestamp /\ a.currentPrice = b.currentPrice

\* poll tick i runs its continuation in this step
PollDelivers(i) == polls[i].pc = "replied" /\ polls'[i].pc = "idle"

\* the answer of tick i carries a page with at least one entry
PollPageArrived(i) == polls[i].res.kind = "ok" /\ Len(polls[i].res.executions) > 0

\* the answer of tick i is a failed fetch: a rejection or success = false
PollFetchFailed(i) == polls[i].res.kind \in {"fail", "throw"}

\* the first entry of the page of tick i is successful and its output normalizes
LatestNormalizes(i) ==
    /\ polls[i].res.executions[1].success
    /\ ~Falsy(polls[i].res.executions[1].response_output)
    /\ parseAgentResponse(polls[i].res.executions[1].response_output, now).ok

\* tick i gets as far as parsing the output of the first entry of its page
\* (lines 487-488), and the output does not parse
LatestUnparseable(i) ==
    /\ polls[i].res.kind = "ok" /\ Len(polls[i].res.executions) > 0
    /\ lastLogIdRef # "null"
    /\ lastLogIdRef # polls[i].res.executions[1].id
    /\ polls[i].res.executions[1].success
    /\ ~Falsy(polls[i].res.executions[1].response_output)
    /\ ~parseAgentResponse(polls[i].res.executions[1].response_output, now).ok

\* feed' is feed with one entry put in front
OnePrepended == Len(feed') = Len(feed) + 1 /\ Tail(feed') = feed

\* C1: no two records of the Feed have equal (timestamp, currentPrice), whichever
\* path inserted them.
C1_FeedHasNoDuplicates ==
    \A i, j \in 1..Len(feed) : i # j => ~SameKey(feed[i], feed[j])

\* C2: every step that changes the Feed puts exactly one record at index 0 and
\* keeps the records already present in their order, whichever path inserts and
\* in whatever order the calls were issued.
C2_NewestFirstByCompletion == [][feed' # feed => OnePrepended]_vars

C2_Witness ==
    /\ Len(feed) >= 2
    /\ feed[1].source = "manual"
    /\ feed[2].source = "scheduled"
    /\ \E i \in 1..MaxTicks : polls[i].pc # "idle"

\* C3: a tick that finds lastLogIdRef unknown and is handed a non-empty page
\* inserts nothing and records the id of the first entry, whatever the entry's
\* success flag and output.
C3_FirstTickSuppression ==
    [][\A i \in 1..MaxTicks :
          (PollDelivers(i) /\ PollPageArrived(i) /\ lastLogIdRef = "null")
          => /\ feed' = feed
             /\ lastLogIdRef' = polls[i].res.executions[1].id]_vars

\* the first tick saw a page of two whose first entry would have normalized
C3_Witness ==
    /\ feed = <<>>
    /\ lastLogIdRef = ExecId(2)
    /\ \A i \in 1..MaxTicks : polls[i].pc = "idle"
    /\ Len(remoteLog) = 2
    /\ remoteLog[1].success
    /\ remoteLog[1].response_output = Str(JsonA)

\* C4: a tick that finds lastLogIdRef known and different from the first
\* entry's id records that id; if the entry is successful and its output
\* normalizes, one scheduled record made from it goes to the front of the Feed
\* unless the Feed holds its key already; otherwise the Feed is unchanged.
C4_NoveltyDetection ==
    [][\A i \in 1..MaxTicks :
          (/\ PollDelivers(i) /\ PollPageArrived(i)
           /\ lastLogIdRef # "null"
           /\ lastLogIdRef # polls[i].res.executions[1].id)
          => /\ lastLogIdRef' = polls[i].res.executions[1].id
             /\ IF LatestNormalizes(i)
                THEN LET p == parseAgentResponse(polls[i].res.executions[1].response_output, now)
                     IN  IF \E k \in 1..Len(feed) : SameKey(feed[k], p)
                         THEN feed' = feed
                         ELSE /\ OnePrepended
                              /\ feed'[1].source = "scheduled"
                              /\ SameKey(feed'[1], p)
                              /\ feed'[1].direction = p.direction
                ELSE feed' = feed]_vars

\* the second tick found a new execution and inserted its record
C4_Witness ==
    /\ Len(feed) = 1
    /\ feed[1].source = "scheduled"
    /\ feed[1].timestamp = TsA
    /\ lastLogIdRef = ExecId(2)

\* C5 as stated: a tick whose fetch failed, or whose latest entry's output does
\* not parse, leaves lastLogIdRef and the Feed as they were and the timer armed.
C5_FailureLeavesLastSeen ==
    [][\A i \in 1..MaxTicks :
          (/\ PollDelivers(i)
           /\ \/ PollFetchFailed(i)
              \/ LatestUnparseable(i))
          => /\ lastLogIdRef' = lastLogIdRef
             /\ feed' = feed
             /\ pollIntervalRef' = pollIntervalRef]_vars

\* C5 as amended: a tick whose fetch failed changes nothing and leaves the timer
\* armed; a tick whose latest entry's output does not parse leaves the Feed as
\* it was, but lastLogIdRef ends up at that entry's id.
C5_FailureSemantics ==
    [][\A i \in 1..MaxTicks :
          /\ (PollDelivers(i) /\ PollFetchFailed(i))
             => /\ UNCHANGED <<lastLogIdRef, feed, lastUpdated, logs, logsTotal, newUpdateBanner>>
                /\ pollIntervalRef' = pollIntervalRef
          /\ (PollDelivers(i) /\ LatestUnparseable(i))
             => /\ feed' = feed
                /\ pollIntervalRef' = pollIntervalRef
                /\ lastLogIdRef' = polls[i].res.executions[1].id]_vars

\* a later tick took an unparseable execution for seen
C5_Witness ==
    /\ feed = <<>>
    /\ Len(logs) = 2
    /\ logs[1].success
    /\ logs[1].response_output = Str(NotJson)
    /\ lastLogIdRef = logs[1].id
    /\ pollIntervalRef = "armed"

\* C6: once the timer is torn down no tick starts, and no step of a tick
\* changes lastLogIdRef, the Feed, the unseen-update flag or the cached log.
C6_NoTickAfterTeardown ==
    [][(pollIntervalRef = "cleared" /\ polls' # polls)
       => /\ \A i \in 1..MaxTicks : polls[i].pc = "idle" => polls'[i].pc = "idle"
          /\ UNCHANGED <<lastLogIdRef, feed, newUpdateBanner, logs, logsTotal>>]_vars


\* the status answers whose continuation runs in this step
StatusDelivered ==
    {statusLoads[i].res : i \in {j \in 1..MaxStatus :
                                    statusLoads[j].pc = "replied" /\ statusLoads'[j].pc = "idle"}}
    \cup {toggles[c].res : c \in {d \in Controls :
                                    toggles[d].pc = "fetched" /\ toggles'[d].pc = "idle"}}

\* C7: every toggle that has issued pause or resume goes on to issue a status
\* fetch, whether the call resolved or rejected, and when the toggle completes
\* the cached isActive is the one that fetch reported.
C7_ToggleAlwaysReconciles ==
    [][\A c \in Controls :
          /\ (toggles[c].pc = "calling" /\ toggles'[c].pc # "calling")
             => toggles'[c].pc = "fetching"
          /\ (toggles[c].pc = "fetched" /\ toggles'[c].pc = "idle" /\ StatusWrites(toggles[c].res))
             => scheduleActive' = BoolText(SelectSchedule(toggles[c].res.schedules).is_active)]_vars

\* C8: the cached schedule and its isActive change only in the continuation of
\* a status fetch that succeeded and listed at least one schedule, and to a
\* schedule of that list; no other step of a toggle, and no failed call or
\* fetch, changes them.
C8_CacheWrittenOnlyByFetch ==
    [][scheduleVars' # scheduleVars
       => \E r \in StatusDelivered :
             /\ r.kind = "ok"
             /\ \E k \in 1..Len(r.schedules) :
                   /\ scheduleData' = r.schedules[k]
                   /\ scheduleActive' = BoolText(r.schedules[k].is_active)]_vars

\* the service has paused the schedule, the reconciling fetch has failed, and
\* the cache still holds the last fetched value
C8_Witness ==
    /\ scheduleActive = "true"
    /\ \E c \in Controls :
          /\ toggles[c].pc = "fetched"
          /\ toggles[c].call = "pause"
          /\ toggles[c].res.kind # "ok"
    /\ \E k \in 1..Len(remoteSchedules) :
          remoteSchedules[k].id = SCHEDULE_ID /\ ~remoteSchedules[k].is_active

\* C9: at most one toggle is in flight, and the busy flag is set while it is.
C9_SingleFlightToggle ==
    /\ Cardinality({c \in Controls : toggles[c].pc # "idle"}) <= 1
    /\ (\E c \in Controls : toggles[c].pc # "idle") => toggling

\* one control has a toggle in flight while both controls are on screen
C9_Witness ==
    /\ Rendered
    /\ showSchedulePanel
    /\ scheduleActive # "null"
    /\ toggles["header"].pc = "fetching"
    /\ toggles["panel"].pc = "idle"

\* C10: when the agent's answer reports success and its result normalizes, the
\* continuation of runAnalysis puts exactly one record, tagged manual and made
\* from that result, at the front of the Feed and leaves lastLogIdRef alone.
C10_ManualInsertsOne ==
    [][(/\ analysis.pc = "replied" /\ analysis'.pc = "idle"
        /\ analysis.res.kind = "ok"
        /\ parseAgentResponse(analysis.res.payload, now).ok)
       => /\ OnePrepended
          /\ feed'[1].source = "manual"
          /\ SameKey(feed'[1], parseAgentResponse(analysis.res.payload, now))
          /\ feed'[1].direction = parseAgentResponse(analysis.res.payload, now).direction
          /\ lastLogIdRef' = lastLogIdRef]_vars

\* a manual record went on top while the poller had seen executions and had a
\* tick under way
C10_Witness ==
    /\ Len(feed) >= 1
    /\ feed[1].source = "manual"
    /\ feed[1].currentPrice = "N/A"
    /\ lastLogIdRef = ExecId(2)
    /\ \E i \in 1..MaxTicks : polls[i].pc = "replied"

\* the answer of callAIAgent whose continuation runs in this step yields no
\* record: a rejection, success = false, or a result that does not normalize
AnalysisFails ==
    /\ analysis.pc = "replied" /\ analysis'.pc # "replied"
    /\ \/ analysis.res.kind \in {"throw", "fail"}
       \/ ~parseAgentResponse(analysis.res.payload, now).ok

\* C11: when the agent invocation throws, reports success = false, or its
\* result does not normalize, the continuation of runAnalysis leaves the Feed
\* as it was, sets the error message (which was clear) to one message, and ends
\* the run without a second invocation.
C11_ManualFailure ==
    [][AnalysisFails
       => /\ feed' = feed
          /\ analysisError = "null"
          /\ analysisError' # "null"
          /\ analysis' = IdleCall(NoAgentReply)
          /\ isAnalyzing' = FALSE]_vars

\* a run whose result did not normalize ended with the message up and the one
\* record of the Feed untouched
C11_Witness ==
    /\ analysisError = "Received unexpected response format from agent."
    /\ analysis.pc = "idle"
    /\ ~isAnalyzing
    /\ Len(feed) = 1

\* the identifiers of the illustrative records
SampleIds == {getSampleData(0)[k].id : k \in 1..Len(getSampleData(0))}

\* displayFeed is the illustrative set exactly when the Feed is empty and the
\* Sample Data switch is on
SampleShownExactlyWhenEmptyAndOn ==
    (displayFeed = getSampleData(now)) <=> (feed = <<>> /\ showSampleData)

\* C12: what is displayed is the illustrative set exactly when the Feed is
\* empty and sample mode is on; no record of the Feed is an illustrative one;
\* and once the Feed holds a record it is never empty again and what is
\* displayed is the Feed, whatever the Sample Data switch is set to.
C12_SampleSubstitution ==
    /\ SampleShownExactlyWhenEmptyAndOn
    /\ [][/\ SampleShownExactlyWhenEmptyAndOn'
          /\ \A k \in 1..Len(feed') :
                 /\ feed'[k].id \notin SampleIds
                 /\ \A j \in 1..Len(getSampleData(now')) : feed'[k] # getSampleData(now')[j]
          /\ feed # <<>> => (feed' # <<>> /\ displayFeed' = feed')]_vars

\* sample mode is on while the Feed holds a real record and a later record is
\* on its way: the real Feed is what is displayed
C12_Witness ==
    /\ showSampleData
    /\ Len(feed) = 1
    /\ displayFeed = feed
    /\ analysis.pc = "replied"

\* C13: the Feed starts empty; a step leaves it as it was or puts one record in
\* front: its length never decreases, and every record it held is still there,
\* unmodified and in the same order behind the new one.
C13_FeedLifecycle ==
    /\ feed = <<>>
    /\ [][/\ Len(feed') >= Len(feed)
          /\ Len(feed') <= Len(feed) + 1
          /\ \A k \in 1..Len(feed) : feed'[k + (Len(feed') - Len(feed))] = feed[k]]_vars

\* a scheduled record went in front of a manual one
C13_Witness ==
    /\ Len(feed) = 2
    /\ feed[1].source = "scheduled"
    /\ feed[2].source = "manual"
    /\ feed[1].id # feed[2].id

(***************************************************************************)
(* Properties of the normalizer                                            *)
(***************************************************************************)
\* parseAgentResponse returns in this step
Normalizes == ~normalized /\ normalized'

\* v is an object whose property name holds a string
FieldIsString(v, name) ==
    v.kind = "object" /\ name \in DOMAIN v.fields /\ v.fields[name].kind = "string"

\* the string v holds under name, or dflt when it holds none
FieldOr(v, name, dflt) == IF FieldIsString(v, name) THEN v.fields[name].str ELSE dflt

\* the strings of the array v holds under name, or none when it holds no array
BulletsOf(v, name) ==
    IF v.kind = "object" /\ name \in DOMAIN v.fields /\ v.fields[name].kind = "array"
    THEN FilterStrings(v.fields[name].items)
    ELSE <<>>

\* v is an object whose property result holds an object (an array is one)
HasNestedResult(v) ==
    v.kind = "object" /\ "result" \in DOMAIN v.fields
    /\ v.fields["result"].kind \in {"object", "array"}

\* the structure the payload is, or decodes to
Decoded(v) == IF v.kind = "string" /\ v.str \in JsonTexts THEN JSONParse(v.str).val ELSE v

\* C14: for an object payload without a nested result, normalization succeeds,
\* and each field that is absent or not of the expected type gets its default:
\* "N/A" for currentPrice and priceChange, flat for direction, no bullet points,
\* the time of the normalization for timestamp.
C14_DefaultsForMissingFields ==
    [][(Normalizes /\ payload.kind = "object" /\ ~HasNestedResult(payload))
       => /\ fragment'.ok
          /\ ~FieldIsString(payload, "current_price") => fragment'.currentPrice = "N/A"
          /\ ~FieldIsString(payload, "price_change") => fragment'.priceChange = "N/A"
          /\ ~FieldIsString(payload, "direction") => fragment'.direction = "flat"
          /\ ~("bullet_points" \in DOMAIN payload.fields
                /\ payload.fields["bullet_points"].kind = "array")
             => fragment'.bulletPoints = <<>>
          /\ ~FieldIsString(payload, "timestamp") => fragment'.timestamp = ToISOString(now)]_vars

\* an object whose five fields are all of the wrong type was normalized after
\* the clock had moved
C14_Witness ==
    /\ normalized
    /\ payload = Obj([current_price |-> Num(419), price_change |-> Null, direction |-> Num(1),
                      bullet_points |-> Str("gained"), timestamp |-> Num(0)])
    /\ fragment = [ok |-> TRUE, currentPrice |-> "N/A", priceChange |-> "N/A",
                   direction |-> "flat", bulletPoints |-> <<>>, timestamp |-> ToISOString(1)]

\* C15: when the payload is, or decodes to, a structure with a nested result
\* object, every field of the fragment comes from that inner object and none
\* from the outer one; a result inside the inner object is not looked at.
C15_UnwrapOneLevel ==
    [][(Normalizes /\ HasNestedResult(Decoded(payload)))
       => LET inner == Decoded(payload).fields["result"]
          IN  /\ fragment'.ok
              /\ fragment'.currentPrice = FieldOr(inner, "current_price", "N/A")
              /\ fragment'.priceChange = FieldOr(inner, "price_change", "N/A")
              /\ fragment'.direction = FieldOr(inner, "direction", "flat")
              /\ fragment'.timestamp = FieldOr(inner, "timestamp", ToISOString(now))
              /\ fragment'.bulletPoints = BulletsOf(inner, "bullet_points")]_vars

\* of a result inside a result, the price of the middle level was taken
C15_Witness ==
    /\ normalized
    /\ payload = ObjWrapWrapA
    /\ fragment.ok
    /\ fragment.currentPrice = "$1.00"
    /\ fragment.direction = "flat"

\* C16 as stated: the direction of every normalized fragment, and of every
\* record of the Feed, is up, down or flat.
C16_DirectionIsEnum ==
    /\ (normalized /\ fragment.ok) => fragment.direction \in {"up", "down", "flat"}
    /\ \A k \in 1..Len(feed) : feed[k].direction \in {"up", "down", "flat"}

\* the object the fields are extracted from
ExtractionSource(v) ==
    IF HasNestedResult(Decoded(v)) THEN Decoded(v).fields["result"] ELSE Decoded(v)

\* C16 as amended: the direction of a fragment is the payload's direction when
\* that is a string, whatever its text, and flat when it is absent or of
\* another type.
C16_DirectionKeptAsText ==
    [][(Normalizes /\ fragment'.ok)
       => fragment'.direction = FieldOr(ExtractionSource(payload), "direction", "flat")]_vars

\* a direction that is none of up, down, flat came through as it was
C16_Witness ==
    /\ normalized
    /\ fragment.ok
    /\ fragment.direction = "sideways"

\* C17: normalization fails exactly when the payload is neither a string nor
\* an object or array, or is a string that does not decode; every other
\* payload, a string decoding to a non-object among them, yields a fragment.
C17_UnparseableOnlyWhen ==
    [][Normalizes
       => (~fragment'.ok
           <=> \/ payload.kind \notin {"string", "object", "array"}
               \/ payload.kind = "string" /\ payload.str \notin JsonTexts)]_vars

\* a string that decodes to a number yielded the default fragment
C17_Witness ==
    /\ normalized
    /\ payload = Str(JsonNumber)
    /\ fragment.ok
    /\ fragment.currentPrice = "N/A"
    /\ fragment.direction = "flat"

(***************************************************************************)
(* Properties of the schedule cache and the toggle                         *)
(***************************************************************************)
\* control c issues its pause or resume call in this step
ToggleCalls(c) == toggles[c].pc # "calling" /\ toggles'[c].pc = "calling"

\* C18: a toggle issues its call only from rest and only while the cached state
\* is known: pause when the cached state is active, resume when it is paused,
\* for the id of the cached schedule; a toggle under way issues no further
\* call, and while the cached state is unknown no toggle is under way.
C18_ToggleCallFollowsCache ==
    [][/\ \A c \in Controls :
             ToggleCalls(c)
             => /\ toggles[c].pc = "idle"
                /\ scheduleActive # "null"
                /\ toggles'[c].call = (IF scheduleActive = "true" THEN "pause" ELSE "resume")
                /\ toggles'[c].id = scheduleData.id
                /\ \A d \in Controls \ {c} : toggles'[d] = toggles[d]
       /\ \A c \in Controls :
             (toggles[c].pc # "idle" /\ toggles'[c].pc # "idle")
             => /\ toggles'[c].call = toggles[c].call
                /\ toggles'[c].id = toggles[c].id
       /\ scheduleActive' = "null" => \A c \in Controls : toggles'[c].pc = "idle"]_vars

\* the cache holds the other schedule, paused, and a resume addressed to it is
\* in flight
C18_Witness ==
    /\ scheduleActive = "false"
    /\ scheduleData.id = OTHER_SCHEDULE_ID
    /\ \E c \in Controls :
          /\ toggles[c].pc = "calling"
          /\ toggles[c].call = "resume"
          /\ toggles[c].id = OTHER_SCHEDULE_ID

\* the listing failed: a rejection, success = false, or no schedule at all
ListingFailed(r) == r.kind \in {"throw", "fail"} \/ Len(r.schedules) = 0

\* C19: the continuation of a status fetch whose listing threw, reported
\* success = false or held no schedule leaves the cached schedule and state as
\* they were; and a cached state that is known never becomes unknown.
C19_FetchFailureSticky ==
    [][/\ (StatusDelivered # {} /\ \A r \in StatusDelivered : ListingFailed(r))
          => UNCHANGED <<scheduleActive, scheduleData>>
       /\ scheduleActive # "null" => scheduleActive' # "null"]_vars

\* the fetch issued at mount has run its continuation, and although the service
\* holds both schedules the cached state is still unknown: that fetch failed
C19_Witness ==
    /\ mounted
    /\ \A i \in 1..MaxStatus : statusLoads[i].pc = "idle"
    /\ scheduleActive = "null"
    /\ scheduleData = NullSchedule
    /\ remoteSchedules = InitialSchedules

\* C20: the continuation of a status fetch that listed at least one schedule
\* caches the first schedule of the list carrying the tracked id, or the first
\* schedule of the list when none carries it, and sets the cached state from
\* that schedule's is_active.
C20_FetchSelectsTracked ==
    [][\A r \in StatusDelivered :
          (r.kind = "ok" /\ Len(r.schedules) > 0)
          => /\ \/ /\ scheduleData'.id = SCHEDULE_ID
                   /\ \E k \in 1..Len(r.schedules) :
                         /\ r.schedules[k] = scheduleData'
                         /\ \A j \in 1..(k - 1) : r.schedules[j].id # SCHEDULE_ID
                \/ /\ \A k \in 1..Len(r.schedules) : r.schedules[k].id # SCHEDULE_ID
                   /\ scheduleData' = r.schedules[1]
             /\ scheduleActive' = (IF scheduleData'.is_active THEN "true" ELSE "false")]_vars

\* the tracked schedule was cached although another one is listed before it
C20_Witness ==
    /\ Len(remoteSchedules) = 2
    /\ remoteSchedules[1].id = OTHER_SCHEDULE_ID
    /\ remoteSchedules[1].is_active
    /\ scheduleData = remoteSchedules[2]
    /\ scheduleData.id = SCHEDULE_ID
    /\ scheduleActive = "false"

\* the toggle of control c ends in failure in this step: its pause or resume
\* call is rejected, or its reconciling fetch is rejected or reports
\* success = false
ToggleFails(c) ==
    \/ toggles[c].pc = "calling" /\ toggles'[c].pc = "idle"
    \/ /\ toggles[c].pc = "fetched" /\ toggles'[c].pc = "idle"
       /\ toggles[c].res.kind \in {"fail", "throw"}

\* C21 as stated: when a toggle fails, an error message is up for the operator
\* afterwards.
C21_ToggleFailureSurfaced ==
    [][\A c \in Controls : ToggleFails(c) => analysisError' # "null"]_vars

\* C21 as amended: when a toggle fails nothing is surfaced: the message the
\* operator sees is what it was, the cached schedule and state are what they
\* were, and the busy flag is released.
C21_ToggleFailureSilent ==
    [][\A c \in Controls :
          ToggleFails(c)
          => /\ analysisError' = analysisError
             /\ UNCHANGED <<scheduleActive, scheduleData>>
             /\ toggling /\ ~toggling']_vars

\* a toggle whose pause took effect at the service is about to end with a
\* rejected fetch, and no message is up
C21_Witness ==
    /\ analysisError = "null"
    /\ toggling
    /\ \E c \in Controls :
          /\ toggles[c].pc = "fetched"
          /\ toggles[c].call = "pause"
          /\ toggles[c].res.kind = "throw"
    /\ \E k \in 1..Len(remoteSchedules) :
          remoteSchedules[k].id = SCHEDULE_ID /\ ~remoteSchedules[k].is_active

(***************************************************************************)
(* Properties of the messages, the banner and the cached log               *)
(***************************************************************************)
\* a background flow runs its continuation in this step
BackgroundDelivers ==
    \/ \E i \in 1..MaxTicks : PollDelivers(i)
    \/ \E i \in 1..MaxStatus : logLoads[i].pc = "replied" /\ logLoads'[i].pc = "idle"
    \/ \E i \in 1..MaxStatus : statusLoads[i].pc = "replied" /\ statusLoads'[i].pc = "idle"

\* C22: the continuation of a poller tick, of a log load and of a status fetch
\* leaves the error message as it was, whatever was answered; the message goes
\* up only in the continuation of a manual run, and comes down only when a
\* manual run starts or in a step that changes nothing else (Dismiss).
C22_BackgroundFlowsSilent ==
    [][/\ BackgroundDelivers => analysisError' = analysisError
       /\ (analysisError' # analysisError /\ analysisError' # "null")
          => analysis.pc = "replied" /\ analysis'.pc = "idle"
       /\ (analysisError' # analysisError /\ analysisError' = "null")
          => \/ analysis.pc = "idle" /\ analysis'.pc = "sent"
             \/ UNCHANGED <<feed, isAnalyzing, lastUpdated, newUpdateBanner, scheduleVars,
                            logVars, refVars, callVars, envVars>>]_vars

\* a message is up while a tick, the log load and the status fetch each hold
\* a failure they have not yet acted on
C22_Witness ==
    /\ analysisError = "Agent unavailable"
    /\ \E i \in 1..MaxTicks : polls[i].pc = "replied" /\ polls[i].res.kind = "throw"
    /\ \E i \in 1..MaxStatus : logLoads[i].pc = "replied" /\ logLoads[i].res.kind = "fail"
    /\ \E i \in 1..MaxStatus : statusLoads[i].pc = "replied" /\ statusLoads[i].res.kind = "throw"

\* C23: the banner goes from down to up only in the continuation of a tick
\* that put a scheduled record in front of the Feed while the viewport was
\* scrolled down.
C23_BannerOnlyOnScheduledInsert ==
    [][(~newUpdateBanner /\ newUpdateBanner')
       => /\ \E i \in 1..MaxTicks : PollDelivers(i)
          /\ OnePrepended
          /\ feed'[1].source = "scheduled"
          /\ scrollTop > ScrollThreshold]_vars

\* the operator acknowledges the banner in this step: scrollToTop and nothing
\* else
Acknowledges ==
    /\ scrollTop' = 0
    /\ UNCHANGED <<feed, lastUpdated, isAnalyzing, analysisError, scheduleVars, toggling,
                   logVars, lastLogIdRef, callVars, envVars>>

\* C24: a banner that is up stays up in every step (tick, manual run, toggle,
\* status fetch, scrolling) except the operator's acknowledgment.
C24_BannerStaysUntilAcknowledged ==
    [][(newUpdateBanner /\ ~newUpdateBanner') => Acknowledges]_vars

\* the banner is still up, with the viewport back at the top, after a manual
\* record went in front of the scheduled one and while a toggle holds the
\* answer of its reconciling fetch
C24_Witness ==
    /\ newUpdateBanner
    /\ scrollTop = 0
    /\ Len(feed) = 2
    /\ feed[1].source = "manual"
    /\ feed[2].source = "scheduled"
    /\ \E c \in Controls : toggles[c].pc = "fetched"

\* tick i finds a latest execution it has not seen, lastLogIdRef being known
PollFindsNew(i) ==
    /\ PollDelivers(i) /\ PollPageArrived(i)
    /\ lastLogIdRef # "null"
    /\ lastLogIdRef # polls[i].res.executions[1].id

\* C25: a tick that finds a new latest execution replaces the cached
\* executions and their total by the fetched page and its total, whether the
\* entry was unsuccessful, its output did not normalize, its record was a
\* duplicate, or a record was inserted.
C25_NoveltyRefreshesLogs ==
    [][\A i \in 1..MaxTicks :
          PollFindsNew(i)
          => /\ logs' = polls[i].res.executions
             /\ logsTotal' = polls[i].res.total]_vars

\* the cached executions were replaced by a tick whose record the Feed refused
\* as a duplicate of the manual one
C25_Witness ==
    /\ Len(logs) = 2
    /\ logsTotal = 2
    /\ logs[1].id = lastLogIdRef
    /\ logs[1].success
    /\ logs[1].response_output = Str(JsonA)
    /\ Len(feed) = 1
    /\ feed[1].source = "manual"
    /\ feed[1].timestamp = TsA

\* C26: a tick that is handed an empty page, or a page whose first entry
\* carries the id seen last, changes none of the Feed, lastLogIdRef, the
\* banner, the last-updated time and the cached executions and total.
C26_NothingNewIsNoOp ==
    [][\A i \in 1..MaxTicks :
          (/\ PollDelivers(i)
           /\ polls[i].res.kind = "ok"
           /\ \/ Len(polls[i].res.executions) = 0
              \/ polls[i].res.executions[1].id = lastLogIdRef)
          => UNCHANGED <<feed, lastLogIdRef, newUpdateBanner, lastUpdated, logs, logsTotal>>]_vars

\* after a tick inserted the record of the second execution, a later tick holds
\* a page that begins with that same execution
C26_Witness ==
    /\ Len(feed) = 1
    /\ lastLogIdRef = ExecId(2)
    /\ Len(logs) = 2
    /\ \E i \in 1..MaxTicks :
          /\ polls[i].pc = "replied"
          /\ polls[i].res.kind = "ok"
          /\ Len(polls[i].res.executions) = 2
          /\ polls[i].res.executions[1].id = lastLogIdRef

\* C27: under overlapping ticks lastLogIdRef never goes from the id of a later
\* execution to the id of an earlier one.
C27_LastSeenNeverMovesBack ==
    [][\A j, k \in 1..MaxExec :
          (lastLogIdRef = ExecId(k) /\ lastLogIdRef' = ExecId(j)) => j >= k]_vars


\* the fetch named h is under way and a fetch issued after it has already
\* written the cache
Overtaken(h) ==
    \E n \in 1..Len(statusIssued) : statusIssued[n].h = h /\ statusIssued[n].overtaken

\* C28: with several status fetches outstanding, the continuation of a fetch
\* that was issued before one that has already written the cache leaves the
\* cached isActive as the later fetch wrote it.
C28_EarlierFetchNeverOverwrites ==
    [][/\ \A i \in 1..MaxStatus :
              (StatusDeliver(i) /\ Overtaken(LoadHandle(i)))
                  => scheduleActive' = scheduleActive
       /\ \A c \in Controls :
              (ToggleFetchDeliver(c) /\ Overtaken(ToggleHandle(c)))
                  => scheduleActive' = scheduleActive]_vars


\* C29: if every remote call eventually returns or throws, a toggle that set
\* the toggling flag eventually clears it and a manual run that set the
\* analyzing flag eventually clears it, whichever path the handler takes.
C29_BusyFlagsReleased ==
    /\ toggling ~> ~toggling
    /\ isAnalyzing ~> ~isAnalyzing

\* both flags are held on a failure path: the manual run's call was rejected
\* and its catch block is about to run, and the reconciling fetch of a toggle
\* was rejected and its continuation is about to run
C29_Witness ==
    /\ isAnalyzing
    /\ analysis.pc = "replied"
    /\ analysis.res.kind = "throw"
    /\ toggling
    /\ \E c \in Controls : toggles[c].pc = "fetched" /\ toggles[c].res.kind = "throw"

====
